---------------------------- MODULE Spec2Model ----------------------------
(***************************************************************************)
(* Model of the type-erasure adapter (BoxedImporter), the metadata         *)
(* deserialisers and the importer registry of the asset import pipeline.   *)
(*                                                                         *)
(* Two implementations of the adapter exist in the sources:                *)
(*   "boxed_importer"  importer/src/boxed_importer.rs                      *)
(*   "asset_import"    src/asset_import.rs                                 *)
(* Every adapter operation takes the implementation as its first argument. *)
(***************************************************************************)
EXTENDS Integers, Sequences, FiniteSets, TLC

VARIABLES
    variant,      \* which implementation of the adapter is linked
    importer,     \* the concrete importer T behind the erased handle
    cur_options,  \* erased options the caller carries between imports
    cur_state,    \* erased state the caller carries between imports
    chain,        \* number of successful imports in the caller's chain
    last,         \* the last import_boxed call: its arguments and outcome
    heap,         \* worker spec: the State value stored in each box
    owned,        \* worker spec: the boxes the caller owns and may pass on
    thr,          \* worker spec: each worker thread's import_boxed call
    jobs,         \* worker spec: number of calls started
    loaded,       \* metadata spec: the last deserialize call and its outcome
    phase,        \* registry spec: "startup" while entries are submitted, then "running"
    registry,     \* registry spec: the submitted SourceFileImporter entries
    iters,        \* registry spec: the iterators handed out, with what each yielded
    ctor_calls,   \* registry spec: calls made to each entry's instantiator
    allocated     \* registry spec: importer instances allocated so far

callerVars == <<cur_options, cur_state, chain, last>>
workerVars == <<heap, owned, thr, jobs>>
registryVars == <<phase, registry, iters, ctor_calls, allocated>>

vars == <<variant, importer, callerVars, workerVars, loaded, registryVars>>

-----------------------------------------------------------------------------
(* Bounds of the model *)

MaxSrcLen == 1      \* longest source byte stream
MaxNextId == 1      \* largest next_id a caller may hand in out of the blue
MaxChain == 2       \* longest chain of successful threaded imports
NumBoxes == 2       \* State values the caller owns at the start
MaxJobs == 2        \* import_boxed calls started on worker threads
MaxCacheLen == 4    \* longest options or state cache entry, in bytes
MaxEntries == 2     \* SourceFileImporter entries submitted at startup

Bytes == {0, 1}

Variants == {"boxed_importer", "asset_import"}

RECURSIVE SeqsUpTo(_, _)
SeqsUpTo(S, n) ==
    IF n = 0 THEN {<<>>}
    ELSE LET shorter == SeqsUpTo(S, n - 1)
         IN  shorter \cup {Append(q, x) : q \in {p \in shorter : Len(p) = n - 1}, x \in S}

Sources == SeqsUpTo(Bytes, MaxSrcLen)

-----------------------------------------------------------------------------
(* Importer contract: two concrete importers with incompatible types *)

Importers == {"CounterImporter", "SimpleImporter"}

OptionsType(T) == IF T = "CounterImporter" THEN "CounterOptions" ELSE "SimpleOptions"
StateType(T) == IF T = "CounterImporter" THEN "CounterState" ELSE "SimpleState"

ValuesOf(ty) ==
    CASE ty = "CounterOptions" -> {[quality |-> q] : q \in {80, 50}}
      [] ty = "CounterState" -> {[next_id |-> n] : n \in 0..MaxNextId}
      [] ty = "SimpleOptions" -> {[flip |-> b] : b \in BOOLEAN}
      [] ty = "SimpleState" -> {[unit |-> 0]}

DefaultOf(ty) ==
    CASE ty = "CounterOptions" -> [quality |-> 80]
      [] ty = "CounterState" -> [next_id |-> 0]
      [] ty = "SimpleOptions" -> [flip |-> FALSE]
      [] ty = "SimpleState" -> [unit |-> 0]

TypeNames == {"CounterOptions", "CounterState", "SimpleOptions", "SimpleState"}

RECURSIVE SumBytes(_)
SumBytes(src) == IF src = <<>> THEN 0 ELSE Head(src) + SumBytes(Tail(src))

NoValue == [assets |-> <<>>]

(* Importer::import(source, options, &mut state).  Reads the source to the
   end.  The result carries the state as the importer left it. *)
Import(T, source, o, s) ==
    IF T = "CounterImporter"
    THEN IF source = <<>>
         THEN [ok |-> FALSE, err |-> "empty source", value |-> NoValue,
               state |-> s, read |-> Len(source)]
         ELSE [ok |-> TRUE, err |-> "none",
               value |-> [assets |-> << [id |-> s.next_id,
                                         hash |-> SumBytes(source) + o.quality] >>],
               state |-> [next_id |-> s.next_id + 1],
               read |-> Len(source)]
    ELSE IF source # <<>> /\ Head(source) = 0
         THEN [ok |-> FALSE, err |-> "bad magic", value |-> NoValue,
               state |-> s, read |-> Len(source)]
         ELSE [ok |-> TRUE, err |-> "none",
               value |-> [assets |-> << [id |-> 0,
                                         hash |-> SumBytes(source)
                                                  + (IF o.flip THEN 1 ELSE 0)] >>],
               state |-> s, read |-> Len(source)]

ImporterVersion(T) == IF T = "CounterImporter" THEN 2 ELSE 1

-----------------------------------------------------------------------------
(* Serializable-object capability: erased handles and downcasting *)

Box(ty, v) == [type |-> ty, val |-> v]

Erased(ty) == {Box(ty, v) : v \in ValuesOf(ty)}

AllErased == UNION {Erased(ty) : ty \in TypeNames}

Downcast(h, ty) ==
    IF h.type = ty THEN [ok |-> TRUE, val |-> h.val] ELSE [ok |-> FALSE, val |-> h.val]

Clone(v) == v

NoHandle == Box("none", [unit |-> 0])


-----------------------------------------------------------------------------
(* Metadata model and the two encodings *)

NilTypeId == "00000000"

TypeUuid(T) == IF T = "CounterImporter" THEN "c0c0c0c0" ELSE "51515151"

TypeIds == {NilTypeId, TypeUuid("CounterImporter"), TypeUuid("SimpleImporter")}

None == <<>>
Some(x) == <<x>>

SOURCEMETADATA_VERSION == 1

AssetLists == {<<>>, << [id |-> "a1", search_tags |-> <<>>] >>}

(* SourceMetadata<O, S> with concrete options and state.  The record of
   asset_import.rs has source_hash where boxed_importer.rs has import_hash
   and importer_type. *)
SourceMetadatas(v, T) ==
    IF v = "boxed_importer"
    THEN [version : {SOURCEMETADATA_VERSION},
          import_hash : {None, Some(7)},
          importer_version : {1, 2},
          importer_type : TypeIds,
          importer_options : ValuesOf(OptionsType(T)),
          importer_state : ValuesOf(StateType(T)),
          assets : AssetLists]
    ELSE [version : {SOURCEMETADATA_VERSION},
          source_hash : {7},
          importer_version : {1, 2},
          importer_options : ValuesOf(OptionsType(T)),
          importer_state : ValuesOf(StateType(T)),
          assets : AssetLists]

Field(n, x) == [name |-> n, val |-> x]

(* The metadata-file encoding of a record: its fields, by name, in the order
   of declaration. *)
RonSerialize(v, m) ==
    IF v = "boxed_importer"
    THEN << Field("version", [u32 |-> m.version]),
            Field("import_hash", [opt |-> m.import_hash]),
            Field("importer_version", [u32 |-> m.importer_version]),
            Field("importer_type", [uuid |-> m.importer_type]),
            Field("importer_options", m.importer_options),
            Field("importer_state", m.importer_state),
            Field("assets", [list |-> m.assets]) >>
    ELSE << Field("version", [u32 |-> m.version]),
            Field("source_hash", [u64 |-> m.source_hash]),
            Field("importer_version", [u32 |-> m.importer_version]),
            Field("importer_options", m.importer_options),
            Field("importer_state", m.importer_state),
            Field("assets", [list |-> m.assets]) >>

FieldNames(v) ==
    IF v = "boxed_importer"
    THEN {"version", "import_hash", "importer_version", "importer_type",
          "importer_options", "importer_state", "assets"}
    ELSE {"version", "source_hash", "importer_version",
          "importer_options", "importer_state", "assets"}

(* Fields whose absence is not an error: an Option reads as None, and
   importer_type carries #[serde(default)]. *)
DefaultedFields(v) ==
    IF v = "boxed_importer" THEN {"import_hash", "importer_type"} ELSE {}

Occurrences(bytes, n) == {i \in 1..Len(bytes) : bytes[i].name = n}

Has(bytes, n) == Occurrences(bytes, n) # {}

Get(bytes, n) == bytes[CHOOSE i \in Occurrences(bytes, n) : TRUE].val

HasShape(x, ty) == DOMAIN x = DOMAIN DefaultOf(ty)

(* ron::de::from_bytes::<SourceMetadata<O, S>> *)
RonParse(v, bytes, O, S) ==
    IF \E n \in FieldNames(v) : Cardinality(Occurrences(bytes, n)) > 1
    THEN [ok |-> FALSE, err |-> "duplicate field"]
    ELSE IF \E n \in FieldNames(v) \ DefaultedFields(v) : ~Has(bytes, n)
    THEN [ok |-> FALSE, err |-> "missing field"]
    ELSE IF ~HasShape(Get(bytes, "importer_options"), O)
            \/ ~HasShape(Get(bytes, "importer_state"), S)
    THEN [ok |-> FALSE, err |-> "invalid type"]
    ELSE IF v = "boxed_importer"
    THEN [ok |-> TRUE, err |-> "none",
          val |-> [version |-> Get(bytes, "version").u32,
                   import_hash |-> IF Has(bytes, "import_hash")
                                   THEN Get(bytes, "import_hash").opt ELSE None,
                   importer_version |-> Get(bytes, "importer_version").u32,
                   importer_type |-> IF Has(bytes, "importer_type")
                                     THEN Get(bytes, "importer_type").uuid ELSE NilTypeId,
                   importer_options |-> Get(bytes, "importer_options"),
                   importer_state |-> Get(bytes, "importer_state"),
                   assets |-> Get(bytes, "assets").list]]
    ELSE [ok |-> TRUE, err |-> "none",
          val |-> [version |-> Get(bytes, "version").u32,
                   source_hash |-> Get(bytes, "source_hash").u64,
                   importer_version |-> Get(bytes, "importer_version").u32,
                   importer_options |-> Get(bytes, "importer_options"),
                   importer_state |-> Get(bytes, "importer_state"),
                   assets |-> Get(bytes, "assets").list]]

-----------------------------------------------------------------------------
(* The cache encoding of options and state (bincode, fixed-width integers,
   little-endian, trailing bytes ignored) *)

CacheBytes == {0, 1, 80}

BincodeSerialize(ty, x) ==
    CASE ty = "CounterOptions" -> <<x.quality>>
      [] ty = "CounterState" -> << x.next_id % 256, (x.next_id \div 256) % 256,
                                   (x.next_id \div 65536) % 256,
                                   (x.next_id \div 16777216) % 256 >>
      [] ty = "SimpleOptions" -> << IF x.flip THEN 1 ELSE 0 >>
      [] ty = "SimpleState" -> <<>>

Eof == [ok |-> FALSE, err |-> "unexpected end of file", val |-> [unit |-> 0]]

BincodeDeserialize(ty, bytes) ==
    CASE ty = "CounterOptions" ->
            IF Len(bytes) < 1 THEN Eof
            ELSE [ok |-> TRUE, err |-> "none", val |-> [quality |-> bytes[1]]]
      [] ty = "CounterState" ->
            IF Len(bytes) < 4 THEN Eof
            ELSE [ok |-> TRUE, err |-> "none",
                  val |-> [next_id |-> bytes[1] + 256 * bytes[2] + 65536 * bytes[3]
                                       + 16777216 * bytes[4]]]
      [] ty = "SimpleOptions" ->
            IF Len(bytes) < 1 THEN Eof
            ELSE IF bytes[1] \notin {0, 1}
            THEN [ok |-> FALSE, err |-> "invalid bool encoding", val |-> [unit |-> 0]]
            ELSE [ok |-> TRUE, err |-> "none", val |-> [flip |-> bytes[1] = 1]]
      [] ty = "SimpleState" ->
            [ok |-> TRUE, err |-> "none", val |-> [unit |-> 0]]

-----------------------------------------------------------------------------
(* Type-erasure adapter: the deserialize operations *)

UnwrapPanic == "called Result::unwrap() on an Err value"

Loaded(x) == [kind |-> "Ok", err |-> "none", val |-> x]

NoLoad == [op |-> "none", bytes |-> <<>>, result |-> Loaded(NoHandle)]

(* boxed_importer.rs returns the decoding error with ?; asset_import.rs
   unwraps the decoder's result. *)
DecodeFailure(v, err) ==
    IF v = "boxed_importer"
    THEN [kind |-> "Err", err |-> err, val |-> NoHandle]
    ELSE [kind |-> "Panic", err |-> UnwrapPanic, val |-> NoHandle]

(* mutant: the stored importer_version gives way to the current version() *)
DeserializeMetadataCurrentVersion(v, T, bytes) ==
    LET metadata == RonParse(v, bytes, OptionsType(T), StateType(T))
    IN  IF ~metadata.ok THEN DecodeFailure(v, metadata.err)
        ELSE Loaded([metadata.val EXCEPT
                        !.importer_version = ImporterVersion(T),
                        !.importer_options = Box(OptionsType(T), @),
                        !.importer_state = Box(StateType(T), @)])

(* mutant: the assets are not carried over *)
DeserializeMetadataDropsAssets(v, T, bytes) ==
    LET metadata == RonParse(v, bytes, OptionsType(T), StateType(T))
    IN  IF ~metadata.ok THEN DecodeFailure(v, metadata.err)
        ELSE Loaded([metadata.val EXCEPT
                        !.assets = <<>>,
                        !.importer_options = Box(OptionsType(T), @),
                        !.importer_state = Box(StateType(T), @)])

(* BoxedImporter::deserialize_metadata *)
DeserializeMetadata(v, T, bytes) ==
    LET metadata == RonParse(v, bytes, OptionsType(T), StateType(T))
    IN  IF ~metadata.ok THEN DecodeFailure(v, metadata.err)
        ELSE IF v = "boxed_importer"
        THEN Loaded([version |-> metadata.val.version,
                     import_hash |-> metadata.val.import_hash,
                     importer_version |-> metadata.val.importer_version,
                     importer_type |-> metadata.val.importer_type,
                     importer_options |-> Box(OptionsType(T), metadata.val.importer_options),
                     importer_state |-> Box(StateType(T), metadata.val.importer_state),
                     assets |-> Clone(metadata.val.assets)])
        ELSE Loaded([version |-> metadata.val.version,
                     source_hash |-> metadata.val.source_hash,
                     importer_version |-> metadata.val.importer_version,
                     importer_options |-> Box(OptionsType(T), metadata.val.importer_options),
                     importer_state |-> Box(StateType(T), metadata.val.importer_state),
                     assets |-> Clone(metadata.val.assets)])

(* BoxedImporter::deserialize_options *)
DeserializeOptions(v, T, bytes) ==
    LET o == BincodeDeserialize(OptionsType(T), bytes)
    IN  IF ~o.ok THEN DecodeFailure(v, o.err)
        ELSE Loaded(Box(OptionsType(T), o.val))

(* BoxedImporter::deserialize_state *)
DeserializeState(v, T, bytes) ==
    LET s == BincodeDeserialize(StateType(T), bytes)
    IN  IF ~s.ok THEN DecodeFailure(v, s.err)
        ELSE Loaded(Box(StateType(T), s.val))

-----------------------------------------------------------------------------
(* Type-erasure adapter: import_boxed *)

PanicMessage(v, what) ==
    IF v = "boxed_importer"
    THEN (IF what = "State" THEN "Failed to downcast Importer::State"
                            ELSE "Failed to downcast Importer::Options")
    ELSE "called Result::unwrap() on an Err value"

Panicked(msg) ==
    [kind |-> "Panic", err |-> msg, value |-> NoValue,
     options |-> NoHandle, state |-> NoHandle,
     import_calls |-> 0, source_read |-> 0]

Failed(r) ==
    [kind |-> "Err", err |-> r.err, value |-> NoValue,
     options |-> NoHandle, state |-> NoHandle,
     import_calls |-> 1, source_read |-> r.read]

Succeeded(T, r, o) ==
    [kind |-> "Ok", err |-> "none", value |-> r.value,
     options |-> Box(OptionsType(T), o), state |-> Box(StateType(T), r.state),
     import_calls |-> 1, source_read |-> r.read]

(* mutant: the state handed back is the one received, not the one import left *)
ImportBoxedStaleState(v, T, source, options, state) ==
    LET s == Downcast(state, StateType(T))
        o == Downcast(options, OptionsType(T))
    IN  IF ~s.ok THEN Panicked(PanicMessage(v, "State"))
        ELSE IF ~o.ok THEN Panicked(PanicMessage(v, "Options"))
        ELSE LET r == Import(T, source, Clone(o.val), s.val)
             IN  IF ~r.ok THEN Failed(r)
                 ELSE Succeeded(T, [r EXCEPT !.state = s.val], o.val)

(* mutant: options of the wrong type are replaced by the defaults *)
ImportBoxedLenientOptions(v, T, source, options, state) ==
    LET s == Downcast(state, StateType(T))
        o == Downcast(options, OptionsType(T))
    IN  IF ~s.ok THEN Panicked(PanicMessage(v, "State"))
        ELSE LET ov == IF o.ok THEN o.val ELSE DefaultOf(OptionsType(T))
                 r == Import(T, source, Clone(ov), s.val)
             IN  IF ~r.ok THEN Failed(r) ELSE Succeeded(T, r, ov)

(* mutant: an importer error is wrapped in an adapter error *)
ImportBoxedWrapsError(v, T, source, options, state) ==
    LET s == Downcast(state, StateType(T))
        o == Downcast(options, OptionsType(T))
    IN  IF ~s.ok THEN Panicked(PanicMessage(v, "State"))
        ELSE IF ~o.ok THEN Panicked(PanicMessage(v, "Options"))
        ELSE LET r == Import(T, source, Clone(o.val), s.val)
             IN  IF ~r.ok THEN Failed([r EXCEPT !.err = "import failed"])
                 ELSE Succeeded(T, r, o.val)

(* mutant: the defaults are handed to import in place of the options passed *)
ImportBoxedDefaultOptions(v, T, source, options, state) ==
    LET s == Downcast(state, StateType(T))
        o == Downcast(options, OptionsType(T))
    IN  IF ~s.ok THEN Panicked(PanicMessage(v, "State"))
        ELSE IF ~o.ok THEN Panicked(PanicMessage(v, "Options"))
        ELSE LET r == Import(T, source, DefaultOf(OptionsType(T)), s.val)
             IN  IF ~r.ok THEN Failed(r)
                 ELSE Succeeded(T, r, DefaultOf(OptionsType(T)))

(* BoxedImporter::import_boxed.  Both implementations downcast the state,
   then the options, panic on a mismatch, call import with a clone of the
   options, propagate its error with ? and box the results. *)
ImportBoxed(v, T, source, options, state) ==
    LET s == Downcast(state, StateType(T))
    IN  IF ~s.ok THEN Panicked(PanicMessage(v, "State"))
        ELSE LET o == Downcast(options, OptionsType(T))
             IN  IF ~o.ok THEN Panicked(PanicMessage(v, "Options"))
                 ELSE LET r == Import(T, source, Clone(o.val), s.val)
                      IN  IF ~r.ok THEN Failed(r)
                          ELSE Succeeded(T, r, o.val)

DefaultOptions(v, T) == Box(OptionsType(T), DefaultOf(OptionsType(T)))

DefaultState(v, T) == Box(StateType(T), DefaultOf(StateType(T)))

Version(v, T) == ImporterVersion(T)

NoCall ==
    [source |-> <<>>, options |-> NoHandle, state |-> NoHandle,
     threaded |-> FALSE, result |-> Panicked("none"), made |-> FALSE]

-----------------------------------------------------------------------------
(* The parts of the state a specification does not exercise stay as
   constructed. *)

IdleThread ==
    [pc |-> "idle", box |-> 0, source |-> <<>>, options |-> NoHandle,
     given |-> NoHandle, o |-> [unit |-> 0], loaded |-> [unit |-> 0],
     result |-> Panicked("none")]

WorkersIdle ==
    /\ heap = [b \in {} |-> NoHandle]
    /\ owned = {}
    /\ thr = [w \in {} |-> IdleThread]
    /\ jobs = 0

(* The parts of the program that enumerate the registry, once each. *)
Enumerations == {"scan", "watch"}

NoIter == [started |-> FALSE, yielded |-> <<>>, exhausted |-> FALSE]

NewIter == [started |-> TRUE, yielded |-> <<>>, exhausted |-> FALSE]

RegistryIdle ==
    /\ phase = "startup"
    /\ registry = <<>>
    /\ iters = [e \in Enumerations |-> NoIter]
    /\ ctor_calls = <<>>
    /\ allocated = 0

CallerIdle ==
    /\ cur_options = DefaultOptions(variant, importer)
    /\ cur_state = DefaultState(variant, importer)
    /\ chain = 0
    /\ last = NoCall

-----------------------------------------------------------------------------
(* import_boxed calls in flight on worker threads.  A State value lives in a
   box; passing the box to import_boxed moves it out of the caller's hands,
   and the caller gets it back only inside the Ok result. *)

Workers == {"w1", "w2"}

Boxes == 1..NumBoxes

(* mutant: the call borrows the box and the caller keeps it *)
TakeOwnershipShared(owns, b) == owns

(* state: Box<dyn SerdeObj> is passed by value: the caller gives the box up *)
TakeOwnership(owns, b) == owns \ {b}

(* Options the caller may pass: those of the importer, or by mistake a State *)
WorkerOptions == Erased(OptionsType(importer)) \cup {DefaultState(variant, importer)}

(* Sources the workers import: an empty one and the one-byte ones *)
WorkerSources == {src \in Sources : Len(src) <= 1}

InitWorkers ==
    /\ variant \in Variants
    /\ importer \in Importers
    /\ CallerIdle
    /\ heap = [b \in Boxes |-> DefaultState(variant, importer)]
    /\ owned = Boxes
    /\ thr = [w \in Workers |-> IdleThread]
    /\ jobs = 0
    /\ loaded = NoLoad
    /\ RegistryIdle

(* A worker that is idle, or has handed its last result over, starts a call. *)
Begin(w, b, source, options) ==
    /\ thr[w].pc \in {"idle", "returned"}
    /\ jobs < MaxJobs
    /\ b \in owned
    /\ owned' = TakeOwnership(owned, b)
    /\ thr' = [thr EXCEPT ![w] = [IdleThread EXCEPT !.pc = "downcast", !.box = b,
                                     !.source = source, !.options = options,
                                     !.given = heap[b]]]
    /\ jobs' = jobs + 1
    /\ UNCHANGED <<variant, importer, callerVars, loaded, registryVars, heap>>

DowncastStep(w) ==
    /\ thr[w].pc = "downcast"
    /\ LET s == Downcast(heap[thr[w].box], StateType(importer))
           o == Downcast(thr[w].options, OptionsType(importer))
       IN  thr' = [thr EXCEPT ![w] =
                     IF ~s.ok
                     THEN [@ EXCEPT !.pc = "panicked",
                                    !.result = Panicked(PanicMessage(variant, "State"))]
                     ELSE IF ~o.ok
                     THEN [@ EXCEPT !.pc = "panicked",
                                    !.result = Panicked(PanicMessage(variant, "Options"))]
                     ELSE [@ EXCEPT !.pc = "import", !.o = o.val]]
    /\ UNCHANGED <<variant, importer, callerVars, loaded, registryVars, heap, owned, jobs>>

(* import reads the state through its exclusive borrow ... *)
ImportLoad(w) ==
    /\ thr[w].pc = "import"
    /\ thr' = [thr EXCEPT ![w].pc = "importing",
                          ![w].loaded = heap[thr[w].box].val]
    /\ UNCHANGED <<variant, importer, callerVars, loaded, registryVars, heap, owned, jobs>>

(* ... and writes it back before it returns *)
ImportStore(w) ==
    /\ thr[w].pc = "importing"
    /\ LET r == Import(importer, thr[w].source, Clone(thr[w].o), thr[w].loaded)
       IN  /\ heap' = [heap EXCEPT ![thr[w].box] = Box(StateType(importer), r.state)]
           /\ thr' = [thr EXCEPT ![w].pc = "return",
                                 ![w].result = IF r.ok THEN Succeeded(importer, r, thr[w].o)
                                                      ELSE Failed(r)]
    /\ UNCHANGED <<variant, importer, callerVars, loaded, registryVars, owned, jobs>>

(* On Ok the box travels back to the caller in the result; on Err it is dropped. *)
Return(w) ==
    /\ thr[w].pc = "return"
    /\ IF thr[w].result.kind = "Ok"
       THEN /\ thr' = [thr EXCEPT ![w].pc = "returned",
                                  ![w].result.state = heap[thr[w].box]]
            /\ owned' = owned \cup {thr[w].box}
       ELSE /\ thr' = [thr EXCEPT ![w].pc = "returned"]
            /\ owned' = owned
    /\ UNCHANGED <<variant, importer, callerVars, loaded, registryVars, heap, jobs>>

NextWorkers ==
    \/ \E w \in Workers, b \in Boxes, source \in WorkerSources, options \in WorkerOptions :
          Begin(w, b, source, options)
    \/ \E w \in Workers : DowncastStep(w)
    \/ \E w \in Workers : ImportLoad(w)
    \/ \E w \in Workers : ImportStore(w)
    \/ \E w \in Workers : Return(w)

SpecWorkers == InitWorkers /\ [][NextWorkers]_vars

-----------------------------------------------------------------------------
(* A caller driving one erased importer *)

InitImport ==
    /\ variant \in Variants
    /\ importer \in Importers
    /\ CallerIdle
    /\ WorkersIdle
    /\ loaded = NoLoad
    /\ RegistryIdle

Aborted == last.made /\ last.result.kind = "Panic"

(* The caller re-imports with the options and state it carries, and keeps
   what the call returns.  A failed call consumed the state: the caller
   starts over from the defaults. *)
ImportThreaded(source, options) ==
    /\ ~Aborted
    /\ chain < MaxChain
    /\ LET r == ImportBoxed(variant, importer, source, options, cur_state)
       IN  /\ last' = [source |-> source, options |-> options, state |-> cur_state,
                       threaded |-> TRUE, result |-> r, made |-> TRUE]
           /\ IF r.kind = "Ok"
              THEN /\ cur_options' = r.options
                   /\ cur_state' = r.state
                   /\ chain' = chain + 1
              ELSE /\ cur_options' = DefaultOptions(variant, importer)
                   /\ cur_state' = DefaultState(variant, importer)
                   /\ chain' = 0
    /\ UNCHANGED <<variant, importer, workerVars, loaded, registryVars>>

(* A call with erased values from anywhere, possibly another importer's. *)
ImportUnpaired(source, options, state) ==
    /\ ~Aborted
    /\ last' = [source |-> source, options |-> options, state |-> state,
                threaded |-> FALSE,
                result |-> ImportBoxed(variant, importer, source, options, state),
                made |-> TRUE]
    /\ UNCHANGED <<variant, importer, cur_options, cur_state, chain, workerVars, loaded, registryVars>>

NextImport ==
    \/ \E source \in Sources, options \in Erased(OptionsType(importer)) :
          ImportThreaded(source, options)
    \/ \E source \in Sources, options \in AllErased, state \in AllErased :
          ImportUnpaired(source, options, state)

SpecImport == InitImport /\ [][NextImport]_vars

-----------------------------------------------------------------------------
(* Importer registry: SourceFileImporter entries and get_source_importers *)

Dot == "."

(* Entries the importer crates may submit: an extension, as its characters,
   and the instantiator, named by the importer it constructs. *)
SourceFileImporters ==
    { [extension |-> <<"p">>, instantiator |-> "CounterImporter"],
      [extension |-> <<Dot, "p">>, instantiator |-> "CounterImporter"],
      [extension |-> <<Dot, "p">>, instantiator |-> "SimpleImporter"],
      [extension |-> <<Dot, Dot, "p">>, instantiator |-> "SimpleImporter"] }

(* str::trim_start_matches with a one-character pattern: every leading
   repetition of the pattern is removed. *)
RECURSIVE TrimStartMatches(_, _)
TrimStartMatches(s, pat) ==
    IF s # <<>> /\ Head(s) = pat THEN TrimStartMatches(Tail(s), pat) ELSE s

(* mutant: the extension is passed on as registered *)
YieldedExtensionUntrimmed(s) == s.extension

(* s.extension.trim_start_matches(".") *)
YieldedExtension(s) == TrimStartMatches(s.extension, Dot)

(* mutant: the instance built first for the entry is handed out again *)
InstantiateCached(reg, k, fresh) == [id |-> k, importer |-> reg[k].instantiator]

(* (s.instantiator)(): a newly allocated boxed importer *)
Instantiate(reg, k, fresh) == [id |-> fresh, importer |-> reg[k].instantiator]

InitRegistry ==
    /\ variant = "boxed_importer"
    /\ importer \in Importers
    /\ CallerIdle
    /\ WorkersIdle
    /\ loaded = NoLoad
    /\ RegistryIdle

(* inventory::submit!: an entry joins the collection before main runs *)
Submit(s) ==
    /\ phase = "startup"
    /\ Len(registry) < MaxEntries
    /\ registry' = Append(registry, s)
    /\ ctor_calls' = Append(ctor_calls, 0)
    /\ UNCHANGED <<variant, importer, callerVars, workerVars, loaded,
                   phase, iters, allocated>>

StartMain ==
    /\ phase = "startup"
    /\ phase' = "running"
    /\ UNCHANGED <<variant, importer, callerVars, workerVars, loaded,
                   registry, iters, ctor_calls, allocated>>

(* get_source_importers(): a lazy iterator over the collection *)
GetSourceImporters(i) ==
    /\ phase = "running"
    /\ ~iters[i].started
    /\ iters' = [iters EXCEPT ![i] = NewIter]
    /\ UNCHANGED <<variant, importer, callerVars, workerVars, loaded,
                   phase, registry, ctor_calls, allocated>>

(* Iterator::next on the iterator of enumeration i: the closure of map runs
   on the next entry, or the iterator is at its end. *)
IterNext(i) ==
    /\ phase = "running"
    /\ iters[i].started
    /\ ~iters[i].exhausted
    /\ LET k == Len(iters[i].yielded) + 1
       IN  IF k <= Len(registry)
           THEN /\ iters' = [iters EXCEPT ![i].yielded =
                                Append(@, [extension |-> YieldedExtension(registry[k]),
                                           instance |-> Instantiate(registry, k, allocated + 1)])]
                /\ ctor_calls' = [ctor_calls EXCEPT ![k] = @ + 1]
                /\ allocated' = allocated + 1
           ELSE /\ iters' = [iters EXCEPT ![i].exhausted = TRUE]
                /\ UNCHANGED <<ctor_calls, allocated>>
    /\ UNCHANGED <<variant, importer, callerVars, workerVars, loaded, phase, registry>>

NextRegistry ==
    \/ \E s \in SourceFileImporters : Submit(s)
    \/ StartMain
    \/ \E i \in Enumerations : GetSourceImporters(i)
    \/ \E i \in Enumerations : IterNext(i)

SpecRegistry == InitRegistry /\ [][NextRegistry]_vars

-----------------------------------------------------------------------------
(* A caller loading persisted metadata and cache entries *)

Drop(bytes, i) == SubSeq(bytes, 1, i - 1) \o SubSeq(bytes, i + 1, Len(bytes))

(* What a metadata file may hold: a record saved for any importer, whole, or
   with one field missing, or with one field twice. *)
MetadataFiles ==
    LET saved == UNION {{RonSerialize(variant, m) : m \in SourceMetadatas(variant, T)} :
                           T \in Importers}
    IN  saved
        \cup UNION {{Drop(f, i) : i \in 1..Len(f)} : f \in saved}
        \cup {Append(f, f[1]) : f \in saved}

CacheEntries == SeqsUpTo(CacheBytes, MaxCacheLen)

InitLoad ==
    /\ variant \in Variants
    /\ importer \in Importers
    /\ CallerIdle
    /\ WorkersIdle
    /\ loaded = NoLoad
    /\ RegistryIdle

LoadMetadata(bytes) ==
    /\ loaded.op = "none"
    /\ loaded' = [op |-> "deserialize_metadata", bytes |-> bytes,
                  result |-> DeserializeMetadata(variant, importer, bytes)]
    /\ UNCHANGED <<variant, importer, callerVars, workerVars, registryVars>>

LoadOptions(bytes) ==
    /\ loaded.op = "none"
    /\ loaded' = [op |-> "deserialize_options", bytes |-> bytes,
                  result |-> DeserializeOptions(variant, importer, bytes)]
    /\ UNCHANGED <<variant, importer, callerVars, workerVars, registryVars>>

LoadState(bytes) ==
    /\ loaded.op = "none"
    /\ loaded' = [op |-> "deserialize_state", bytes |-> bytes,
                  result |-> DeserializeState(variant, importer, bytes)]
    /\ UNCHANGED <<variant, importer, callerVars, workerVars, registryVars>>

(* The caller takes the result; after a panic there is no caller left. *)
Consume ==
    /\ loaded.op # "none"
    /\ loaded.result.kind # "Panic"
    /\ loaded' = NoLoad
    /\ UNCHANGED <<variant, importer, callerVars, workerVars, registryVars>>

NextLoad ==
    \/ loaded.op = "none" /\ \E bytes \in MetadataFiles : LoadMetadata(bytes)
    \/ loaded.op = "none" /\ \E bytes \in CacheEntries : LoadOptions(bytes)
    \/ loaded.op = "none" /\ \E bytes \in CacheEntries : LoadState(bytes)
    \/ Consume

SpecLoad == InitLoad /\ [][NextLoad]_vars

-----------------------------------------------------------------------------
(* Properties of import_boxed *)

WellPaired ==
    /\ last.made
    /\ last.options.type = OptionsType(importer)
    /\ last.state.type = StateType(importer)

Direct == Import(importer, last.source, last.options.val, last.state.val)

(* C1: with correctly paired erased options and state, import_boxed succeeds
   exactly when import succeeds on the decoded options and state; on success
   the value is the one import produced, the returned state downcasts to S and
   is the state as import left it, and the returned options downcast to O and
   are the options passed. *)
C1_ImportBoxedRefinesImport ==
    WellPaired =>
        /\ (last.result.kind = "Ok") <=> Direct.ok
        /\ Direct.ok =>
              /\ last.result.value = Direct.value
              /\ Downcast(last.result.state, StateType(importer))
                    = [ok |-> TRUE, val |-> Direct.state]
              /\ Downcast(last.result.options, OptionsType(importer))
                    = [ok |-> TRUE, val |-> last.options.val]

C1_Witness ==
    /\ WellPaired
    /\ last.result.kind = "Ok"
    /\ Direct.state # last.state.val
    /\ last.options.val # DefaultOf(OptionsType(importer))

(* C2: a state or options handle of the wrong runtime type ends the call in a
   panic: no Ok or Err result, import is not invoked, the source is not read. *)
C2_MismatchPanics ==
    (last.made /\ ~WellPaired) =>
        /\ last.result.kind = "Panic"
        /\ last.result.import_calls = 0
        /\ last.result.source_read = 0

C2_Witness ==
    /\ last.made
    /\ last.state.type = StateType(importer)
    /\ last.options.type # OptionsType(importer)
    /\ last.source # <<>>
    /\ last.result.kind = "Panic"

(* C4: when import fails for correctly typed options and state, import_boxed
   returns that very error, without panicking or wrapping it, and no value,
   options or state come with it. *)
C4_ImportErrorPropagatedUnchanged ==
    (WellPaired /\ ~Direct.ok) =>
        /\ last.result.kind = "Err"
        /\ last.result.err = Direct.err
        /\ last.result.value = NoValue
        /\ last.result.options = NoHandle
        /\ last.result.state = NoHandle

C4_Witness ==
    /\ WellPaired
    /\ ~Direct.ok
    /\ last.result.kind = "Err"
    /\ last.result.err = "bad magic"

(* C6: along a chain of successful calls, each given the state the previous
   one returned and the first given default_state(), the counting importer
   has next_id = k after the k-th call, and each call returns the options it
   was passed. *)
C6_ThreadedStateCounts ==
    /\ importer = "CounterImporter" =>
          cur_state = Box("CounterState", [next_id |-> chain])
    /\ (last.made /\ last.threaded /\ last.result.kind = "Ok") =>
          /\ last.result.options = last.options
          /\ cur_options = last.options

C6_Witness ==
    /\ importer = "CounterImporter"
    /\ chain = 2
    /\ cur_state.val.next_id = 2
    /\ last.threaded

-----------------------------------------------------------------------------
(* Properties of calls in flight *)

InFlight(w) == thr[w].pc \in {"downcast", "import", "importing", "return"}

(* C7: no two calls in flight hold the same State value, a value held by a
   call is not in the caller's hands, and every call ends with the result the
   same call gives when run alone on the state it was given. *)
C7_CallsAreIsolated ==
    /\ \A w1 \in Workers, w2 \in Workers :
          (w1 # w2 /\ InFlight(w1) /\ InFlight(w2)) => thr[w1].box # thr[w2].box
    /\ \A w \in Workers : InFlight(w) => thr[w].box \notin owned
    /\ \A w \in Workers :
          thr[w].pc \in {"returned", "panicked"} =>
             thr[w].result = ImportBoxed(variant, importer, thr[w].source,
                                         thr[w].options, thr[w].given)

C7_Witness ==
    /\ importer = "CounterImporter"
    /\ thr["w1"].pc = "returned"
    /\ thr["w1"].result.kind = "Ok"
    /\ thr["w1"].result.state.val.next_id = 1
    /\ thr["w2"].pc = "importing"
    /\ thr["w2"].box # thr["w1"].box

-----------------------------------------------------------------------------
(* Properties of the deserialize operations *)

(* The bytes of the last call do not decode as the concrete types. *)
Malformed ==
    CASE loaded.op = "deserialize_metadata" ->
            ~RonParse(variant, loaded.bytes, OptionsType(importer), StateType(importer)).ok
      [] loaded.op = "deserialize_options" ->
            ~BincodeDeserialize(OptionsType(importer), loaded.bytes).ok
      [] loaded.op = "deserialize_state" ->
            ~BincodeDeserialize(StateType(importer), loaded.bytes).ok
      [] OTHER -> FALSE

(* C3: deserialize_metadata, deserialize_options and deserialize_state, given
   bytes that are malformed for the concrete Options/State types, return a
   decoding error as a result value: no panic, and no erased value. *)
C3_MalformedBytesReturnError ==
    Malformed =>
        /\ loaded.result.kind = "Err"
        /\ loaded.result.val = NoHandle

LoadedMetadata == variant = "boxed_importer" /\ loaded.op = "deserialize_metadata"

(* C8: a SourceMetadata<Options, State> serialized to the metadata-file
   encoding and handed to deserialize_metadata of the matching importer comes
   back equal in every field: version, import_hash, importer_version,
   importer_type and assets are equal, importer_options and importer_state
   downcast to Options and State and equal the originals. *)
C8_MetadataRoundTrip ==
    LoadedMetadata =>
        \A m \in SourceMetadatas(variant, importer) :
            loaded.bytes = RonSerialize(variant, m) =>
                /\ loaded.result.kind = "Ok"
                /\ loaded.result.val.version = m.version
                /\ loaded.result.val.import_hash = m.import_hash
                /\ loaded.result.val.importer_version = m.importer_version
                /\ loaded.result.val.importer_type = m.importer_type
                /\ loaded.result.val.assets = m.assets
                /\ Downcast(loaded.result.val.importer_options, OptionsType(importer))
                      = [ok |-> TRUE, val |-> m.importer_options]
                /\ Downcast(loaded.result.val.importer_state, StateType(importer))
                      = [ok |-> TRUE, val |-> m.importer_state]

C8_Witness ==
    /\ LoadedMetadata
    /\ loaded.result.kind = "Ok"
    /\ \E m \in SourceMetadatas(variant, importer) :
          /\ loaded.bytes = RonSerialize(variant, m)
          /\ m.import_hash = Some(7)
          /\ m.assets # <<>>
          /\ m.importer_type = TypeUuid(importer)
          /\ m.importer_options # DefaultOf(OptionsType(importer))

(* C9: deserialize_metadata changes only the representation of
   importer_options and importer_state.  version, import_hash,
   importer_version, importer_type and assets are those in the bytes:
   import_hash is not recomputed, importer_version is not replaced by the
   current version(), a record whose importer_version differs from version()
   is not rejected, and a record without importer_type parses, with the
   default identifier. *)
C9_OnlyOptionsAndStateAreErased ==
    LoadedMetadata =>
        LET bytes == loaded.bytes
            r == loaded.result
        IN  /\ r.kind = "Ok"
                 <=> RonParse(variant, bytes, OptionsType(importer), StateType(importer)).ok
            /\ r.kind = "Ok" =>
                  /\ r.val.version = Get(bytes, "version").u32
                  /\ r.val.import_hash = IF Has(bytes, "import_hash")
                                         THEN Get(bytes, "import_hash").opt ELSE None
                  /\ r.val.importer_version = Get(bytes, "importer_version").u32
                  /\ r.val.importer_type = IF Has(bytes, "importer_type")
                                           THEN Get(bytes, "importer_type").uuid
                                           ELSE NilTypeId
                  /\ r.val.assets = Get(bytes, "assets").list
                  /\ r.val.importer_options.val = Get(bytes, "importer_options")
                  /\ r.val.importer_state.val = Get(bytes, "importer_state")
            /\ \A m \in SourceMetadatas(variant, importer) :
                  bytes = Drop(RonSerialize(variant, m), 4) =>
                     /\ r.kind = "Ok"
                     /\ r.val.importer_type = NilTypeId
                     /\ r.val.importer_version = m.importer_version

C9_Witness ==
    /\ LoadedMetadata
    /\ loaded.result.kind = "Ok"
    /\ ~Has(loaded.bytes, "importer_type")
    /\ loaded.result.val.importer_type = NilTypeId
    /\ loaded.result.val.importer_version # Version(variant, importer)
    /\ loaded.result.val.import_hash = Some(7)

-----------------------------------------------------------------------------
(* Properties of the registry *)

Dots(n) == [i \in 1..n |-> Dot]

(* the extension with one leading separator, if it has one, removed *)
WithoutLeadingSeparator(e) == IF e # <<>> /\ Head(e) = Dot THEN Tail(e) ELSE e

(* C5 as claimed: once registration is over, an enumeration yields one pair
   per submitted entry, entries sharing an extension included, and each
   extension is the registered one with a leading separator stripped. *)
C5_OneLeadingSeparatorStripped ==
    phase = "running" =>
        \A i \in Enumerations :
            /\ Len(iters[i].yielded) <= Len(registry)
            /\ iters[i].exhausted => Len(iters[i].yielded) = Len(registry)
            /\ \A k \in 1..Len(iters[i].yielded) :
                  /\ iters[i].yielded[k].instance.importer = registry[k].instantiator
                  /\ iters[i].yielded[k].extension
                        = WithoutLeadingSeparator(registry[k].extension)

AllLeadingSeparatorsStripped(e, y) ==
    /\ y = <<>> \/ Head(y) # Dot
    /\ \E n \in 0..Len(e) : e = Dots(n) \o y

(* C5 amended: once registration is over, an enumeration yields one pair per
   submitted entry, entries sharing an extension included, and each extension
   is the registered one with every leading separator stripped. *)
C5_EveryLeadingSeparatorStripped ==
    phase = "running" =>
        \A i \in Enumerations :
            /\ Len(iters[i].yielded) <= Len(registry)
            /\ iters[i].exhausted => Len(iters[i].yielded) = Len(registry)
            /\ \A k \in 1..Len(iters[i].yielded) :
                  /\ iters[i].yielded[k].instance.importer = registry[k].instantiator
                  /\ AllLeadingSeparatorsStripped(registry[k].extension,
                                                  iters[i].yielded[k].extension)

C5_Witness ==
    /\ phase = "running"
    /\ Len(registry) = 2
    /\ registry[1].extension = <<Dot, "p">>
    /\ registry[2].extension = <<Dot, "p">>
    /\ registry[1].instantiator # registry[2].instantiator
    /\ iters["scan"].exhausted
    /\ iters["scan"].yielded[1].extension = <<"p">>
    /\ iters["scan"].yielded[2].extension = <<"p">>

Yields == {<<i, k>> : i \in Enumerations, k \in 1..MaxEntries}

Yielded == {y \in Yields : y[2] <= Len(iters[y[1]].yielded)}

(* C10: no importer is cached.  Each yielded pair carries an instance from
   one call of the entry's instantiator, made when the pair is yielded: the
   calls made to an entry's instantiator are as many as the pairs yielded for
   it, and no instance is yielded twice, within an enumeration or across
   enumerations. *)
C10_NoInstanceIsCached ==
    /\ \A k \in 1..Len(registry) :
          ctor_calls[k] = Cardinality({y \in Yielded : y[2] = k})
    /\ \A y1 \in Yielded, y2 \in Yielded :
          y1 # y2 => iters[y1[1]].yielded[y1[2]].instance.id
                        # iters[y2[1]].yielded[y2[2]].instance.id

C10_Witness ==
    /\ Len(registry) = 2
    /\ Len(iters["scan"].yielded) = 2
    /\ Len(iters["watch"].yielded) = 1
    /\ iters["watch"].yielded[1].instance.id = 2
    /\ ctor_calls = <<2, 1>>

=============================================================================
